---- MODULE Spec2Model ----
(***************************************************************************)
(* Model of scripts/localization_drop.py: the script that copies the       *)
(* per-locale en-US.json files of a localization drop into the project's   *)
(* src/localization/templates directory, one <code>.json per locale.       *)
(*                                                                         *)
(* The file system is the state.  A run of the script is the sequence      *)
(* Main (argument check, path constants, os.scandir) followed by one       *)
(* LoopIteration per directory entry, in whatever order os.scandir yields  *)
(* them, and LoopExit when the iterator is exhausted.                      *)
(***************************************************************************)
EXTENDS Integers, Sequences, FiniteSets, TLC

\* ------------------------------------------------------------------ bounds
MaxEntries  == 3   \* entries in the scanned folder
MaxArgc     == 3   \* len(sys.argv) ranges over 1..MaxArgc
MaxRuns     == 2   \* successive invocations of the script

\* ------------------------------------------------------- the file system
\* Names an entry of the scanned folder can have.
Names == {"en", "ResponseFiles", "qps-ploc", "fr", "de"}

\* Names a subdirectory of the path given on the command line can have.
DropDirNames == {"loc", "logs"}

\* The character codes of the directory names, for string comparison.
Chars ==
    "loc"  :> <<108, 111, 99>> @@
    "logs" :> <<108, 111, 103, 115>>

\* Absence of a file (os.path.isfile is False).
NoFile == "absent"

\* The byte strings a translation file of the drop can hold.
Contents == {"bytesA", "bytesB"}

\* The bytes of a destination file left by an earlier drop.
Stale == "stale"

\* Absence of the file `localization_drop` in the working directory.
NoMarker == "absent"

VARIABLES
    subdirs,        \* immediate subdirectories of sys.argv[1]
    entryKind,      \* scanned folder: name -> "none" | "file" | "dir"
    srcFile,        \* name -> content of <name>/src/localization/templates/en-US.json
    dst,            \* destination templates directory: file name -> content
    marker,         \* content of the file `localization_drop`, or NoMarker;
                    \* no line of the script reads or writes it
    argc,           \* len(sys.argv) of the current run
    pc,             \* "idle" | "scan" | "done" | "failed"
    err,            \* the exception that ended the run
    scannedDir,     \* the directory os.scandir was opened on, as a path
    remaining,      \* entries os.scandir has not yielded yet
    copies,         \* this run: destination file name -> number of copyfile calls
    printed,        \* this run: the "Copying ..." lines written to stdout
    total,          \* all runs: locale code -> number of copyfile calls
    run,            \* number of the current run
    dstAtStart,     \* dst when the current run started
    markerAtStart,  \* marker when the current run started
    doneRuns        \* numbers of the runs that completed without error

vars == <<subdirs, entryKind, srcFile, dst, marker, argc, pc, err, scannedDir,
          remaining, copies, printed, total, run, dstAtStart, markerAtStart,
          doneRuns>>

fsDrop == <<subdirs, entryKind, srcFile>>

\* os.path.join: a path is the sequence of its components.
Join(a, b) == a \o b

\* os.path.basename: the last component of a path.
Basename(path) == path[Len(path)]

\* "{}.json".format(localization_code)
FormatJson(code) == <<code, ".json">>

DstNames == {FormatJson(n) : n \in Names}

\* sys.argv[1], the root every path of the drop is relative to.
LOCALIZATION_DROP_DIR == <<>>

\* Python's order on strings: the first differing character decides, and a
\* proper prefix is smaller.
RECURSIVE LexLess(_, _)
LexLess(a, b) ==
    IF Len(a) = 0 THEN Len(b) > 0
    ELSE IF Len(b) = 0 THEN FALSE
    ELSE IF a[1] # b[1] THEN a[1] < b[1]
    ELSE LexLess(Tail(a), Tail(b))

\* The lexicographically greatest name of a non-empty set of directory names.
LatestDrop(S) == CHOOSE m \in S : \A o \in S \ {m} : LexLess(Chars[o], Chars[m])

\* Variant of LOCALIZATION_DIR: the latest subdirectory instead of "loc".
LocalizationDirLatest ==
    Join(LOCALIZATION_DROP_DIR,
         IF subdirs = {} THEN <<"loc">> ELSE <<LatestDrop(subdirs)>>)

\* LOCALIZATION_DIR = os.path.join(LOCALIZATION_DROP_DIR, "loc")
LOCALIZATION_DIR == Join(LOCALIZATION_DROP_DIR, <<"loc">>)

\* The folders the loop ignores.
IgnoredFolders == {"ResponseFiles", "en"}

\* localization_src for a locale code.
LocalizationSrc(code) ==
    Join(LOCALIZATION_DIR, <<code, "src", "localization", "templates", "en-US.json">>)

\* Variant of IsDir: a missing directory is taken for an empty one.
IsDirLenient(path) ==
    \/ Len(path) <= 1
    \/ Len(path) = 2 /\ path[1] = "loc" /\ "loc" \in subdirs
         /\ path[2] \in Names /\ entryKind[path[2]] = "dir"

\* os.path.isdir on a path below sys.argv[1].
IsDir(path) ==
    \/ Len(path) = 0
    \/ Len(path) = 1 /\ path[1] \in subdirs
    \/ Len(path) = 2 /\ path[1] = "loc" /\ "loc" \in subdirs
         /\ path[2] \in Names /\ entryKind[path[2]] = "dir"

\* The content of the file at a path below sys.argv[1]/loc, NoFile if none.
ReadFile(path) ==
    IF /\ Len(path) = 6
       /\ path[1] = "loc" /\ "loc" \in subdirs
       /\ path[2] \in Names /\ entryKind[path[2]] = "dir"
       /\ SubSeq(path, 3, 6) = <<"src", "localization", "templates", "en-US.json">>
    THEN srcFile[path[2]]
    ELSE NoFile

\* os.path.isfile
IsFile(path) == ReadFile(path) # NoFile

\* The entries os.scandir(path) yields, as paths.
ScanDir(path) ==
    IF path = <<"loc">>
    THEN {Join(path, <<n>>) : n \in {m \in Names : entryKind[m] # "none"}}
    ELSE {}

NoErr == [kind |-> "none", code |-> "none"]

Present(kind) == {n \in Names : kind[n] # "none"}

Init ==
    /\ subdirs \in SUBSET DropDirNames
    /\ entryKind \in {k \in [Names -> {"none", "file", "dir"}] :
                        /\ Cardinality(Present(k)) <= MaxEntries
                        /\ "loc" \notin subdirs => Present(k) = {}}
    /\ srcFile \in {s \in [Names -> {NoFile} \cup Contents] :
                        \A n \in Names : s[n] # NoFile => entryKind[n] = "dir"}
    /\ dst \in {[f \in DstNames |-> NoFile], [f \in DstNames |-> Stale]}
    /\ marker \in {NoMarker} \cup subdirs
    /\ argc = 1
    /\ pc = "idle"
    /\ err = NoErr
    /\ scannedDir = <<"none">>
    /\ remaining = {}
    /\ copies = [f \in DstNames |-> 0]
    /\ printed = {}
    /\ total = [n \in Names |-> 0]
    /\ run = 1
    /\ dstAtStart = dst
    /\ markerAtStart = marker
    /\ doneRuns = {}

\* Variant of ArgError: only the missing argument is rejected, extra
\* arguments are ignored and the scan starts.
ArgErrorLax ==
    /\ pc = "idle"
    /\ \E n \in 1..MaxArgc :
        /\ n # 2
        /\ argc' = n
        /\ IF n = 1
           THEN /\ pc' = "failed"
                /\ err' = [kind |-> "ExpectedArgument", code |-> "none"]
                /\ UNCHANGED <<scannedDir, remaining>>
           ELSE /\ IsDir(LOCALIZATION_DIR)
                /\ pc' = "scan"
                /\ scannedDir' = LOCALIZATION_DIR
                /\ remaining' = ScanDir(LOCALIZATION_DIR)
                /\ UNCHANGED err
    /\ dstAtStart' = dst
    /\ markerAtStart' = marker
    /\ UNCHANGED <<fsDrop, dst, marker, copies, printed, total, run, doneRuns>>

\* Lines 8-11: the argument check raises before anything else happens.
ArgError ==
    /\ pc = "idle"
    /\ \E n \in 1..MaxArgc :
        /\ n # 2
        /\ argc' = n
        /\ err' = [kind |-> IF n = 1 THEN "ExpectedArgument" ELSE "TooManyArguments",
                   code |-> "none"]
    /\ pc' = "failed"
    /\ dstAtStart' = dst
    /\ markerAtStart' = marker
    /\ UNCHANGED <<fsDrop, dst, marker, scannedDir, remaining, copies, printed,
                   total, run, doneRuns>>

\* Lines 13-20 with one argument: os.scandir(LOCALIZATION_DIR) raises
\* FileNotFoundError when the directory does not exist.
ScanError ==
    /\ pc = "idle"
    /\ argc' = 2
    /\ ~IsDir(LOCALIZATION_DIR)
    /\ pc' = "failed"
    /\ err' = [kind |-> "FileNotFoundError", code |-> "none"]
    /\ dstAtStart' = dst
    /\ markerAtStart' = marker
    /\ UNCHANGED <<fsDrop, dst, marker, scannedDir, remaining, copies, printed,
                   total, run, doneRuns>>

\* Variant of ScanStart: a drop whose name the marker holds is not scanned
\* again, the run ends at once.
ScanStartUnlessProcessed ==
    /\ pc = "idle"
    /\ argc' = 2
    /\ IsDir(LOCALIZATION_DIR)
    /\ IF marker = LatestDrop(subdirs)
       THEN /\ pc' = "done"
            /\ doneRuns' = doneRuns \cup {run}
            /\ UNCHANGED <<scannedDir, remaining>>
       ELSE /\ pc' = "scan"
            /\ scannedDir' = LOCALIZATION_DIR
            /\ remaining' = ScanDir(LOCALIZATION_DIR)
            /\ UNCHANGED doneRuns
    /\ dstAtStart' = dst
    /\ markerAtStart' = marker
    /\ UNCHANGED <<fsDrop, dst, marker, err, copies, printed, total, run>>

\* Lines 13-20 with one argument: the loop starts over LOCALIZATION_DIR.
ScanStart ==
    /\ pc = "idle"
    /\ argc' = 2
    /\ IsDir(LOCALIZATION_DIR)
    /\ pc' = "scan"
    /\ scannedDir' = LOCALIZATION_DIR
    /\ remaining' = ScanDir(LOCALIZATION_DIR)
    /\ dstAtStart' = dst
    /\ markerAtStart' = marker
    /\ UNCHANGED <<fsDrop, dst, marker, err, copies, printed, total, run, doneRuns>>

\* Lines 8-20.
Main == ArgError \/ ScanError \/ ScanStart

\* Variant of CopyFile: an existing destination file is kept.
CopyFileKeepExisting(src, name, d) ==
    IF d[name] = NoFile THEN [d EXCEPT ![name] = ReadFile(src)] ELSE d

\* shutil.copyfile(src, dst): dst is created or overwritten with src's bytes.
CopyFile(src, name, d) == [d EXCEPT ![name] = ReadFile(src)]

\* Variant of RaiseMissing: the copies of this run are undone before raising.
RaiseMissingRollback(code) ==
    /\ pc' = "failed"
    /\ err' = [kind |-> "MissingFile", code |-> code]
    /\ dst' = dstAtStart
    /\ UNCHANGED <<copies, printed, total>>

\* Lines 40-41: raise Exception("couldn't find localization file for {} at {}").
RaiseMissing(code) ==
    /\ pc' = "failed"
    /\ err' = [kind |-> "MissingFile", code |-> code]
    /\ UNCHANGED <<dst, copies, printed, total>>

\* Variant of LoopIteration: an entry whose destination file already holds
\* the bytes of its source is not copied again.
LoopIterationSkipUpToDate ==
    /\ pc = "scan"
    /\ \E entry \in remaining :
        /\ remaining' = remaining \ {entry}
        /\ IF ~IsDir(entry)
           THEN UNCHANGED <<dst, pc, err, copies, printed, total>>
           ELSE LET localization_code == Basename(entry)
                    localization_src  == LocalizationSrc(localization_code)
                    localization_dst  == FormatJson(localization_code)
                IN  IF localization_code \in IgnoredFolders
                    THEN UNCHANGED <<dst, pc, err, copies, printed, total>>
                    ELSE IF ~IsFile(localization_src)
                    THEN RaiseMissing(localization_code)
                    ELSE IF dst[localization_dst] = ReadFile(localization_src)
                    THEN UNCHANGED <<dst, pc, err, copies, printed, total>>
                    ELSE /\ printed' = printed \cup
                              {<<localization_code, localization_src, localization_dst>>}
                         /\ dst' = CopyFile(localization_src, localization_dst, dst)
                         /\ copies' = [copies EXCEPT ![localization_dst] = @ + 1]
                         /\ total' = [total EXCEPT ![localization_code] = @ + 1]
                         /\ UNCHANGED <<pc, err>>
    /\ UNCHANGED <<fsDrop, marker, argc, scannedDir, run, dstAtStart, markerAtStart, doneRuns>>

\* Lines 20-53: the body of the loop for the entry os.scandir yields next.
LoopIteration ==
    /\ pc = "scan"
    /\ \E entry \in remaining :
        /\ remaining' = remaining \ {entry}
        /\ IF ~IsDir(entry)
           THEN UNCHANGED <<dst, pc, err, copies, printed, total>>
           ELSE LET localization_code == Basename(entry)
                    localization_src  == LocalizationSrc(localization_code)
                    localization_dst  == FormatJson(localization_code)
                IN  IF localization_code \in IgnoredFolders
                    THEN UNCHANGED <<dst, pc, err, copies, printed, total>>
                    ELSE IF ~IsFile(localization_src)
                    THEN RaiseMissing(localization_code)
                    ELSE /\ printed' = printed \cup
                              {<<localization_code, localization_src, localization_dst>>}
                         /\ dst' = CopyFile(localization_src, localization_dst, dst)
                         /\ copies' = [copies EXCEPT ![localization_dst] = @ + 1]
                         /\ total' = [total EXCEPT ![localization_code] = @ + 1]
                         /\ UNCHANGED <<pc, err>>
    /\ UNCHANGED <<fsDrop, marker, argc, scannedDir, run, dstAtStart, markerAtStart, doneRuns>>

\* The iterator is exhausted: the script ends with exit code 0.
LoopExit ==
    /\ pc = "scan"
    /\ remaining = {}
    /\ pc' = "done"
    /\ doneRuns' = doneRuns \cup {run}
    /\ UNCHANGED <<fsDrop, dst, marker, argc, err, scannedDir, remaining, copies,
                   printed, total, run, dstAtStart, markerAtStart>>

\* The script is invoked again, against the same drop.
NextInvocation ==
    /\ pc \in {"done", "failed"}
    /\ run < MaxRuns
    /\ run' = run + 1
    /\ pc' = "idle"
    /\ err' = NoErr
    /\ scannedDir' = <<"none">>
    /\ remaining' = {}
    /\ copies' = [f \in DstNames |-> 0]
    /\ printed' = {}
    /\ UNCHANGED <<fsDrop, dst, marker, argc, total, dstAtStart, markerAtStart, doneRuns>>

Next == Main \/ LoopIteration \/ LoopExit \/ NextInvocation

Spec == Init /\ [][Next]_vars

TypeOK ==
    /\ pc \in {"idle", "scan", "done", "failed"}
    /\ run \in 1..MaxRuns
    /\ argc \in 1..MaxArgc

\* ------------------------------------------------------------- properties
\* The exclusion set the specification states.
ExclusionSet == {"en", "ResponseFiles", "qps-ploc"}

\* The locale entries: the subdirectories of the scanned folder.
LocaleEntries == {n \in Names : entryKind[n] = "dir"}

NonExcluded == LocaleEntries \ ExclusionSet

HasSource(n) == srcFile[n] # NoFile

\* The entries the loop of the current run has already taken.
Scanned == {n \in Present(entryKind) : <<"loc", n>> \notin remaining}

NoCopyYet == printed = {} /\ \A f \in DstNames : copies[f] = 0 /\ dst[f] = dstAtStart[f]

\* A run is under way or has ended (the state is not between two runs).
InRun == pc # "idle"

\* C1: after a run that completes without error, every subdirectory of the
\* scanned folder that is not in the exclusion set and has its source file
\* has the destination file <code>.json, with the bytes of its source file,
\* whether or not that destination file existed before the run.
C1_CopiedByteIdentical ==
    pc = "done" =>
        \A n \in NonExcluded :
            HasSource(n) => /\ dst[FormatJson(n)] # NoFile
                            /\ dst[FormatJson(n)] = srcFile[n]

\* C1 witness: a completed run has overwritten a stale destination file.
C1_Witness ==
    /\ pc = "done"
    /\ \E n \in NonExcluded :
        /\ HasSource(n)
        /\ dstAtStart[FormatJson(n)] = Stale
        /\ dst[FormatJson(n)] = srcFile[n]

\* C2 (as stated): for every code of the exclusion set {"en",
\* "ResponseFiles", "qps-ploc"} a run never writes <code>.json and never
\* raises the missing-file error for it.
C2_ExcludedUntouched ==
    \A n \in ExclusionSet :
        /\ copies[FormatJson(n)] = 0
        /\ dst[FormatJson(n)] = dstAtStart[FormatJson(n)]
        /\ ~(pc = "failed" /\ err.kind = "MissingFile" /\ err.code = n)

\* C3 (as stated): a run that reaches the scan while some non-excluded
\* locale entry lacks its source file ends in an error naming such an entry,
\* and the marker has its pre-run value.
C3_AbortNamesLocale ==
    (pc \in {"done", "failed"} /\ argc = 2 /\ "loc" \in subdirs
        /\ \E n \in NonExcluded : ~HasSource(n))
    => /\ pc = "failed"
       /\ err.kind = "MissingFile"
       /\ err.code \in {n \in NonExcluded : ~HasSource(n)}
       /\ marker = markerAtStart

SecondRunDone == run = 2 /\ pc = "done" /\ doneRuns = {1, 2}

C7_NoDropFails ==
    (InRun /\ argc = 2 /\ subdirs = {})
    => /\ pc = "failed"
       /\ err.kind = "FileNotFoundError"
       /\ NoCopyYet
       /\ marker = markerAtStart

\* C7 witness: a run with one argument over a path without subdirectories
\* has failed.
C7_Witness ==
    /\ pc = "failed"
    /\ argc = 2
    /\ subdirs = {}
    /\ err.kind = "FileNotFoundError"

\* C8: with no argument or with two or more the run fails before any
\* directory is scanned and before any file is copied; a scan happens only
\* with exactly one argument.
C8_ExactlyOneArgument ==
    InRun =>
        /\ argc # 2 => /\ pc = "failed"
                       /\ err.kind \in {"ExpectedArgument", "TooManyArguments"}
                       /\ scannedDir = <<"none">>
                       /\ NoCopyYet
        /\ (scannedDir # <<"none">> \/ ~NoCopyYet) => argc = 2

\* C8 witness: a run with two arguments has failed over a drop that has a
\* file to copy.
C8_Witness ==
    /\ pc = "failed"
    /\ argc = 3
    /\ err.kind = "TooManyArguments"
    /\ \E n \in NonExcluded : HasSource(n)

\* C9: when a run aborts on a missing source file, every non-excluded entry
\* scanned before the failing one has its destination file written, with its
\* source's bytes, and no entry that was still to be scanned has been copied.
C9_NoRollbackNoContinue ==
    (pc = "failed" /\ err.kind = "MissingFile")
    => /\ \A n \in (Scanned \cap NonExcluded) \ {err.code} :
            /\ copies[FormatJson(n)] = 1
            /\ dst[FormatJson(n)] = srcFile[n]
       /\ \A n \in (Present(entryKind) \ Scanned) \cup {err.code} :
            /\ copies[FormatJson(n)] = 0
            /\ dst[FormatJson(n)] = dstAtStart[FormatJson(n)]

\* C9 witness: a run has aborted on a non-excluded entry after copying
\* another one over a stale file, with an entry the loop would copy still
\* unscanned.
C9_Witness ==
    /\ pc = "failed"
    /\ err.kind = "MissingFile"
    /\ err.code \in NonExcluded
    /\ \E n \in Scanned \cap NonExcluded :
        /\ n # err.code
        /\ dstAtStart[FormatJson(n)] = Stale
        /\ dst[FormatJson(n)] = srcFile[n]
    /\ \E n \in (LocaleEntries \ IgnoredFolders) \ Scanned : HasSource(n)

\* C10 (as stated): the destination files a run writes are exactly those of
\* its processed entries (subdirectories not in the exclusion set whose
\* source exists), one write each, and nothing else is written.
C10_WritesMatchProcessed ==
    /\ \A f \in DstNames : copies[f] <= 1
    /\ \A n \in Names :
        copies[FormatJson(n)] = 1 => n \in NonExcluded /\ HasSource(n)
    /\ \A f \in DstNames : copies[f] = 0 => dst[f] = dstAtStart[f]
    /\ pc = "done" =>
        \A n \in NonExcluded : HasSource(n) => copies[FormatJson(n)] = 1

====
